---- MODULE Spec2Model ----
(***************************************************************************)
(* Model of src/utils/RemoteAuth.js: the session snapshot / restore core   *)
(* (collectEssentialFiles, saveSession, preRestoreSession,                 *)
(* hasPreRestoredSession) and the RemoteAuth lifecycle hooks with their    *)
(* save timer.                                                             *)
(*                                                                         *)
(* Sizes are counted in MiB: one element of a file's content stands for    *)
(* 2^20 bytes, so MAX_FILE_SIZE = 5 and MAX_TOTAL_SIZE = 15.               *)
(* A path is a sequence of segment names relative to the working           *)
(* directory.                                                              *)
(***************************************************************************)
EXTENDS Integers, Sequences, FiniteSets, TLC

\* ------------------------------------------------------------------------
\* Program constants
\* ------------------------------------------------------------------------

\* const MAX_TOTAL_SIZE = 15 * 1024 * 1024 (in MiB)
MAX_TOTAL_SIZE == 15

\* const MAX_FILE_SIZE = 5 * 1024 * 1024 (in MiB)
MAX_FILE_SIZE == 5

\* const ESSENTIAL_DIRS = ['IndexedDB', 'Local Storage']
ESSENTIAL_DIRS == <<"IndexedDB", "Local Storage">>

\* the literal list of collectDirFiles: lock files are always skipped
LOCK_NAMES == {"LOCK", "SingletonLock", "SingletonCookie", "SingletonSocket"}

\* dataPath = options.dataPath || './wa-sessions-temp'
DataPath == <<"wa-sessions-temp">>

\* this.accountId = options.accountId: the account of the modelled instance
AccountId == "acct1"

\* ------------------------------------------------------------------------
\* path.join / path.relative / path.dirname
\* ------------------------------------------------------------------------

RECURSIVE NormalizeFrom(_, _)
\* path.normalize on segments: "." is dropped, ".." removes the segment
\* before it (and is kept when there is none to remove)
NormalizeFrom(done, rest) ==
  IF rest = <<>> THEN done
  ELSE LET s == Head(rest) IN
       IF s = "." THEN NormalizeFrom(done, Tail(rest))
       ELSE IF s = ".." /\ done # <<>> /\ done[Len(done)] # ".."
            THEN NormalizeFrom(SubSeq(done, 1, Len(done) - 1), Tail(rest))
            ELSE NormalizeFrom(Append(done, s), Tail(rest))

\* path.join(a, b)
PathJoin(a, b) == NormalizeFrom(<<>>, a \o b)

\* path.dirname(p)
PathDirname(p) == IF p = <<>> THEN <<>> ELSE SubSeq(p, 1, Len(p) - 1)

RECURSIVE CommonLen(_, _)
\* length of the longest common prefix of two paths
CommonLen(a, b) ==
  IF a = <<>> \/ b = <<>> \/ Head(a) # Head(b) THEN 0
  ELSE 1 + CommonLen(Tail(a), Tail(b))

\* path.relative(from, to): ".." for what is left of from, then the rest of to
PathRelative(from, to) ==
  LET k == CommonLen(from, to) IN
  [i \in 1..(Len(from) - k) |-> ".."] \o SubSeq(to, k + 1, Len(to))

\* TRUE iff p lies under (or is) root
IsUnder(root, p) ==
  Len(p) >= Len(root) /\ SubSeq(p, 1, Len(root)) = root

\* ------------------------------------------------------------------------
\* base64: Buffer.toString('base64') and Buffer.from(s, 'base64')
\* A base64 text is a sequence of sextets 0..63; 64 stands for '='.
\* ------------------------------------------------------------------------

PAD == 64

RECURSIVE ToBase64(_)
\* Buffer.toString('base64'): 3 bytes -> 4 sextets, padded at the end
ToBase64(bytes) ==
  IF Len(bytes) = 0 THEN <<>>
  ELSE IF Len(bytes) = 1 THEN
    <<bytes[1] \div 4, (bytes[1] % 4) * 16, PAD, PAD>>
  ELSE IF Len(bytes) = 2 THEN
    <<bytes[1] \div 4, (bytes[1] % 4) * 16 + bytes[2] \div 16,
      (bytes[2] % 16) * 4, PAD>>
  ELSE
    <<bytes[1] \div 4, (bytes[1] % 4) * 16 + bytes[2] \div 16,
      (bytes[2] % 16) * 4 + bytes[3] \div 64, bytes[3] % 64>>
    \o ToBase64(SubSeq(bytes, 4, Len(bytes)))

RECURSIVE FromBase64(_)
\* Buffer.from(s, 'base64'): 4 sextets -> 3 bytes; decoding stops at '=',
\* a trailing group of 2 or 3 sextets gives 1 or 2 bytes
FromBase64(s) ==
  LET n == IF \E i \in 1..Len(s) : s[i] = PAD
           THEN (CHOOSE i \in 1..Len(s) :
                   s[i] = PAD /\ \A j \in 1..(i - 1) : s[j] # PAD) - 1
           ELSE Len(s)
  IN
  IF n <= 1 THEN <<>>
  ELSE IF n = 2 THEN <<s[1] * 4 + s[2] \div 16>>
  ELSE IF n = 3 THEN
    <<s[1] * 4 + s[2] \div 16, (s[2] % 16) * 16 + s[3] \div 4>>
  ELSE
    <<s[1] * 4 + s[2] \div 16, (s[2] % 16) * 16 + s[3] \div 4,
      (s[3] % 4) * 64 + s[4]>>
    \o FromBase64(SubSeq(s, 5, Len(s)))

\* ------------------------------------------------------------------------
\* The file system: files maps the path of each regular file to its bytes,
\* dirs is the set of directories.
\* ------------------------------------------------------------------------

\* fs.readdir order of the names a directory can hold
NameOrder ==
  <<"000003.log", "000004.log", "blob", "1", "LOCK", "MANIFEST", "SingletonLock",
    "leveldb", "CURRENT", "000005.log", "Default", "IndexedDB", "Local Storage",
    "acct1", "acct2", "wa-sessions-temp", "evil">>

\* fs.access(p): resolves iff p exists
FsAccess(f, d, p) == p \in d \/ p \in DOMAIN f

\* fs.readdir(dir, { withFileTypes: true }): the entries of dir, in order
FsReaddir(f, d, dir) ==
  LET present(n) == Append(dir, n) \in d \/ Append(dir, n) \in DOMAIN f
      names == SelectSeq(NameOrder, present)
  IN [i \in 1..Len(names) |->
        [name |-> names[i], isDirectory |-> Append(dir, names[i]) \in d]]

\* the prefixes of p, p included, the empty path excluded
Prefixes(p) == {SubSeq(p, 1, k) : k \in 1..Len(p)}

\* fs.mkdir(p, { recursive: true }) succeeds iff no prefix of p is a file
MkdirOk(f, p) == Prefixes(p) \cap DOMAIN f = {}

\* the directories after fs.mkdir(p, { recursive: true })
MkdirP(d, p) == d \cup Prefixes(p)

\* fs.writeFile(p, bytes) succeeds iff p's parent is a directory and p is none
WriteOk(d, p) == p # <<>> /\ (PathDirname(p) = <<>> \/ PathDirname(p) \in d) /\ p \notin d

\* the files after fs.writeFile(p, bytes)
WriteFile(f, p, bytes) ==
  [q \in DOMAIN f \cup {p} |-> IF q = p THEN bytes ELSE f[q]]

\* the files after fs.rm(root, { recursive: true, force: true })
RmFiles(f, root) ==
  [q \in {x \in DOMAIN f : ~IsUnder(root, x)} |-> f[q]]

\* the directories after fs.rm(root, { recursive: true, force: true })
RmDirs(d, root) == {x \in d : ~IsUnder(root, x)}

\* ------------------------------------------------------------------------
\* collectDirFiles / collectEssentialFiles
\* race = [on, path, gone, bytes]: another process rewrites (or, with gone,
\* deletes) the file at race.path after the collector's fs.stat of it and
\* before its fs.readFile. acc = [files, totalSize] is the pair (files, stats).
\* ------------------------------------------------------------------------

NoRace == [on |-> FALSE, path |-> <<>>, gone |-> FALSE, bytes |-> <<>>]

\* what fs.readFile(p) sees: the bytes as another process left them
ReadView(f, race, p) ==
  IF race.on /\ race.path = p THEN race.bytes ELSE f[p]

\* fs.readFile(p) throws when the file was deleted in between
ReadFails(race, p) == race.on /\ race.path = p /\ race.gone

\* files[relPath] = value on an insertion-ordered object: a sequence of
\* [path, b64] pairs with distinct paths
ObjSet(obj, key, value) ==
  IF \E i \in 1..Len(obj) : obj[i].path = key
  THEN [i \in 1..Len(obj) |->
          IF obj[i].path = key THEN [path |-> key, b64 |-> value] ELSE obj[i]]
  ELSE Append(obj, [path |-> key, b64 |-> value])

\* lines 235-244: stat, the two size tests, read, record, count
CollectFile(f, race, fullPath, relPath, acc) ==
  IF Len(f[fullPath]) = 0 \/ Len(f[fullPath]) > MAX_FILE_SIZE THEN acc
  ELSE IF ReadFails(race, fullPath) THEN acc
  ELSE LET content == ReadView(f, race, fullPath) IN
       [files |-> ObjSet(acc.files, relPath, ToBase64(content)),
        totalSize |-> acc.totalSize + Len(content)]

\* IsLockName testing the first lock name only
IsLockNameFirstOnly(name) == name = "LOCK"

\* line 233: the entry is a lock file
IsLockName(name) == name \in LOCK_NAMES

\* BudgetSpent with >= in the place of >
BudgetSpentAtCap(acc) == acc.totalSize >= MAX_TOTAL_SIZE

\* line 224: the budget test that ends the loop of one directory
BudgetSpent(acc) == acc.totalSize > MAX_TOTAL_SIZE

RECURSIVE CollectLoop(_, _, _, _, _, _, _, _)
\* the for loop of collectDirFiles over entries[i..], recursing into
\* directories (line 230)
CollectLoop(f, d, race, entries, i, dir, baseDir, acc) ==
  IF i > Len(entries) THEN acc
  ELSE IF BudgetSpent(acc) THEN acc
  ELSE LET entry == entries[i]
           fullPath == PathJoin(dir, <<entry.name>>)
           relPath == PathRelative(baseDir, fullPath)
       IN
       IF entry.isDirectory
       THEN CollectLoop(f, d, race, entries, i + 1, dir, baseDir,
              CollectLoop(f, d, race, FsReaddir(f, d, fullPath), 1,
                          fullPath, baseDir, acc))
       ELSE IF IsLockName(entry.name)
       THEN CollectLoop(f, d, race, entries, i + 1, dir, baseDir, acc)
       ELSE CollectLoop(f, d, race, entries, i + 1, dir, baseDir,
              CollectFile(f, race, fullPath, relPath, acc))

\* collectDirFiles(dir, baseDir, files, stats); a directory that cannot be
\* read leaves files and stats as they are
CollectDirFiles(f, d, race, dir, baseDir, acc) ==
  IF dir \notin d THEN acc
  ELSE CollectLoop(f, d, race, FsReaddir(f, d, dir), 1, dir, baseDir, acc)

\* one round of the loop of collectEssentialFiles: a fresh stats for the
\* essential directory, files shared; res = [files, totalSize]
CollectEssentialDir(f, d, race, sessionPath, essentialDir, res) ==
  LET dirPath == PathJoin(PathJoin(sessionPath, <<"Default">>), <<essentialDir>>)
  IN IF ~FsAccess(f, d, dirPath) THEN res
     ELSE LET got == CollectDirFiles(f, d, race, dirPath, sessionPath,
                       [files |-> res.files, totalSize |-> 0])
          IN [files |-> got.files, totalSize |-> res.totalSize + got.totalSize]

\* const files = {}
EmptyFiles == <<>>

\* collectEssentialFiles(sessionPath) -> { files, totalSize }
CollectEssentialFiles(f, d, race, sessionPath) ==
  CollectEssentialDir(f, d, race, sessionPath, ESSENTIAL_DIRS[2],
    CollectEssentialDir(f, d, race, sessionPath, ESSENTIAL_DIRS[1],
      [files |-> EmptyFiles, totalSize |-> 0]))

\* ------------------------------------------------------------------------
\* The stored envelope. Each encoding layer is a tagged value that only its
\* own decoder opens:
\*   blob    = base64 of the envelope text
\*   text    = [json, val]      json: the text parses as JSON
\*   val     = [isObject, type, data, saved]   (the envelope)
\*   data    = [truthy, buf]    a base64 string ('' and undefined are falsy)
\*   buf     = [gz, text]       gz: the bytes are a gzip stream
\*   text    = [json, val],  val = [isObject, hasFiles, files, ts, id]
\* ------------------------------------------------------------------------

\* the value of a text that is not JSON, or of JSON null, at the inner layer
InnerNone == [isObject |-> FALSE, hasFiles |-> FALSE, files |-> EmptyFiles,
              ts |-> 0, id |-> ""]

\* data = { files, ts: Date.now(), id: this.accountId }
SnapshotPayload(collected, now, accountId) ==
  [isObject |-> TRUE, hasFiles |-> TRUE, files |-> collected, ts |-> now,
   id |-> accountId]

\* JSON.stringify(v)
JsonStringify(v) == [json |-> TRUE, val |-> v]

\* JSON.parse(text) throws on a text that is not JSON
JsonParseThrows(text) == ~text.json

\* JSON.parse(text) when it does not throw
JsonParse(text) == text.val

\* gzip(text)
Gzip(text) == [gz |-> TRUE, text |-> text]

\* gunzip(buf) throws on bytes that are no gzip stream
GunzipThrows(buf) == ~buf.gz

\* gunzip(buf).toString('utf-8') when it does not throw
Gunzip(buf) == buf.text

\* compressed.toString('base64')
BufToBase64(buf) == [truthy |-> TRUE, buf |-> buf]

\* Buffer.from(payload.data, 'base64')
BufFromBase64(str) == str.buf

\* the envelope object of saveSession, lines 280-284
Envelope(type, data, saved) ==
  [isObject |-> TRUE, type |-> type, data |-> data, saved |-> saved]

\* Buffer.from(payload).toString('base64'): the final blob
TextToBase64(text) == [b64 |-> text]

\* Buffer.from(sessionData, 'base64').toString('utf-8')
TextFromBase64(blob) == blob.b64

\* lines 276-286 of saveSession: the blob for the collected files
PackSession(collected, now, accountId) ==
  TextToBase64(JsonStringify(
    Envelope("session_v4",
             BufToBase64(Gzip(JsonStringify(
               SnapshotPayload(collected, now, accountId)))),
             now)))

\* ------------------------------------------------------------------------
\* The durable store db (get / set / clear of one blob per account): a
\* function from the accounts that hold a blob to their blob.
\* ------------------------------------------------------------------------

\* db.getSessionData(accountId) returns null when nothing is stored
DbHas(st, accountId) == accountId \in DOMAIN st

\* db.getSessionData(accountId)
DbGet(st, accountId) == st[accountId]

\* db.saveSessionData(accountId, blob): overwrite on set
DbSet(st, accountId, blob) ==
  [a \in DOMAIN st \cup {accountId} |-> IF a = accountId THEN blob ELSE st[a]]

\* db.clearSessionData(accountId)
DbClear(st, accountId) == [a \in DOMAIN st \ {accountId} |-> st[a]]

\* ------------------------------------------------------------------------
\* preRestoreSession(accountId, dataPath)
\* flt = [get, clear, write, gzip, set]: the store's get / clear throws;
\* write is the set of relative paths whose fs.writeFile the environment
\* fails; gzip and set are the faults of a saveSession (gzip throws, the
\* store's set throws).
\* The result is [restored, files, dirs, store, gets, clears, written].
\* ------------------------------------------------------------------------

NoFaults ==
  [get |-> FALSE, clear |-> FALSE, write |-> {}, gzip |-> FALSE, set |-> FALSE]

\* EntryBytes writing the base64 text as it is
EntryBytesRaw(b64) == b64

\* line 91: Buffer.from(b64Content, 'base64')
EntryBytes(b64) == FromBase64(b64)

RECURSIVE RestoreLoopStopAtFailure(_, _, _, _, _, _, _)
\* RestoreLoop with the try / catch around the loop instead of inside it:
\* the first entry that fails ends the loop
RestoreLoopStopAtFailure(f, d, entries, i, sessionPath, flt, restored) ==
  IF i > Len(entries) THEN [files |-> f, dirs |-> d, restored |-> restored]
  ELSE LET relPath == entries[i].path
           fullPath == PathJoin(sessionPath, relPath)
           parent == PathDirname(fullPath)
       IN
       IF ~MkdirOk(f, parent)
       THEN [files |-> f, dirs |-> d, restored |-> restored]
       ELSE IF relPath \in flt.write \/ ~WriteOk(MkdirP(d, parent), fullPath)
       THEN [files |-> f, dirs |-> MkdirP(d, parent), restored |-> restored]
       ELSE RestoreLoopStopAtFailure(
              WriteFile(f, fullPath, EntryBytes(entries[i].b64)),
              MkdirP(d, parent), entries, i + 1, sessionPath, flt,
              restored + 1)

RECURSIVE RestoreLoop(_, _, _, _, _, _, _)
\* lines 86-96: the loop over Object.entries(files); a throw of mkdir or
\* writeFile is caught per entry. The result is [files, dirs, restored].
RestoreLoop(f, d, entries, i, sessionPath, flt, restored) ==
  IF i > Len(entries) THEN [files |-> f, dirs |-> d, restored |-> restored]
  ELSE LET relPath == entries[i].path
           fullPath == PathJoin(sessionPath, relPath)
           parent == PathDirname(fullPath)
       IN
       IF ~MkdirOk(f, parent)
       THEN RestoreLoop(f, d, entries, i + 1, sessionPath, flt, restored)
       ELSE IF relPath \in flt.write \/ ~WriteOk(MkdirP(d, parent), fullPath)
       THEN RestoreLoop(f, MkdirP(d, parent), entries, i + 1, sessionPath,
                        flt, restored)
       ELSE RestoreLoop(WriteFile(f, fullPath, EntryBytes(entries[i].b64)),
                        MkdirP(d, parent), entries, i + 1, sessionPath, flt,
                        restored + 1)

\* what preRestoreSession returns when it wrote nothing: the store as left
\* (cleared or not), the calls it made to the store
NotRestored(f, d, st, gets, clears) ==
  [restored |-> FALSE, files |-> f, dirs |-> d, store |-> st,
   gets |-> gets, clears |-> clears, written |-> 0]

\* ClearAndFail without the call of clearSessionData
ClearAndFailNoClear(f, d, st, accountId, flt) == NotRestored(f, d, st, 1, 0)

\* ClearAndFail calling clearSessionData a second time when it throws
ClearAndFailRetry(f, d, st, accountId, flt) ==
  NotRestored(f, d, IF flt.clear THEN st ELSE DbClear(st, accountId), 1,
              IF flt.clear THEN 2 ELSE 1)

\* logger.error(...); await db.clearSessionData(accountId); return
\* { restored: false }: a throw of clear goes to the outer catch, which
\* returns the same
ClearAndFail(f, d, st, accountId, flt) ==
  NotRestored(f, d, IF flt.clear THEN st ELSE DbClear(st, accountId), 1, 1)

\* HasData dispatching on the type tag as well
HasDataTagged(payload) == payload.data.truthy /\ payload.type = "session_v4"

\* HasData taking every envelope for a compressed one
HasDataAlways(payload) == TRUE

\* line 62: if (payload.data)
HasData(payload) == payload.data.truthy

\* DecodeThrows with the inner JSON.parse outside the try block
DecodeThrowsGunzipOnly(payload) == GunzipThrows(BufFromBase64(payload.data))

\* lines 64-67 throw: gunzip fails, JSON.parse fails, or sessionObj is null
DecodeThrows(payload) ==
  LET buf == BufFromBase64(payload.data) IN
  \/ GunzipThrows(buf)
  \/ JsonParseThrows(Gunzip(buf))
  \/ ~JsonParse(Gunzip(buf)).isObject

\* lines 64-66: sessionObj, when nothing throws
DecodeSession(payload) == JsonParse(Gunzip(BufFromBase64(payload.data)))

\* NoFiles without the test of the number of keys
NoFilesAbsentOnly(sessionObj) == ~sessionObj.hasFiles

\* line 78: !files || Object.keys(files).length === 0
NoFiles(sessionObj) == ~sessionObj.hasFiles \/ Len(sessionObj.files) = 0

PreRestoreSession(f, d, st, accountId, dataPath, flt) ==
  LET sessionPath == PathJoin(dataPath, <<accountId>>)
      d1 == MkdirP(d, sessionPath)
  IN
  IF ~MkdirOk(f, dataPath) THEN NotRestored(f, d, st, 0, 0)
  ELSE IF ~MkdirOk(f, sessionPath)
  THEN NotRestored(f, MkdirP(d, dataPath), st, 0, 0)
  ELSE IF flt.get THEN NotRestored(f, d1, st, 1, 0)
  ELSE IF ~DbHas(st, accountId) THEN NotRestored(f, d1, st, 1, 0)
  ELSE LET payloadJson == TextFromBase64(DbGet(st, accountId)) IN
  IF JsonParseThrows(payloadJson) THEN ClearAndFail(f, d1, st, accountId, flt)
  ELSE LET payload == JsonParse(payloadJson) IN
  IF ~payload.isObject THEN NotRestored(f, d1, st, 1, 0)
  ELSE IF ~HasData(payload) THEN NotRestored(f, d1, st, 1, 0)
  ELSE IF DecodeThrows(payload) THEN ClearAndFail(f, d1, st, accountId, flt)
  ELSE LET sessionObj == DecodeSession(payload) IN
  IF NoFiles(sessionObj) THEN NotRestored(f, d1, st, 1, 0)
  ELSE LET done == RestoreLoop(f, d1, sessionObj.files, 1, sessionPath, flt, 0)
       IN [restored |-> TRUE, files |-> done.files, dirs |-> done.dirs,
           store |-> st, gets |-> 1, clears |-> 0, written |-> done.restored]

\* HasPreRestoredSession without the readdirSync: existence is enough
HasPreRestoredIfExists(f, d, sessionPath) ==
  FsAccess(f, d,
    PathJoin(PathJoin(sessionPath, <<"Default">>), <<"IndexedDB">>))

\* HasPreRestoredSession that finds no restored session anywhere
HasPreRestoredNever(f, d, sessionPath) == FALSE

\* hasPreRestoredSession(sessionPath)
HasPreRestoredSession(f, d, sessionPath) ==
  LET indexedDb == PathJoin(PathJoin(sessionPath, <<"Default">>), <<"IndexedDB">>)
  IN IF FsAccess(f, d, indexedDb)
     THEN indexedDb \in d /\ Len(FsReaddir(f, d, indexedDb)) > 0
     ELSE FALSE

\* ------------------------------------------------------------------------
\* saveSession()
\* ------------------------------------------------------------------------

\* path.join(this.dataPath, this.accountId)
SessionPath == PathJoin(DataPath, <<AccountId>>)

\* SaveCollect without the test of lines 268-271 for an empty collection
SaveCollectNoCountTest(f, d, race) ==
  LET defaultPath == PathJoin(SessionPath, <<"Default">>) IN
  IF ~FsAccess(f, d, defaultPath)
  THEN [go |-> FALSE, files |-> EmptyFiles, totalSize |-> 0]
  ELSE LET got == CollectEssentialFiles(f, d, race, SessionPath) IN
       [go |-> TRUE, files |-> got.files, totalSize |-> got.totalSize]

\* lines 254-271: the Default folder test, the collection, the test for no
\* file; [go, files, totalSize], go = FALSE where saveSession returns false
SaveCollect(f, d, race) ==
  LET defaultPath == PathJoin(SessionPath, <<"Default">>) IN
  IF ~FsAccess(f, d, defaultPath)
  THEN [go |-> FALSE, files |-> EmptyFiles, totalSize |-> 0]
  ELSE LET got == CollectEssentialFiles(f, d, race, SessionPath) IN
       [go |-> Len(got.files) # 0, files |-> got.files,
        totalSize |-> got.totalSize]

\* SaveStored inserting only: an account that holds a blob keeps it
SaveStoredIfAbsent(st, collected, now, dbFails) ==
  IF dbFails \/ DbHas(st, AccountId) THEN st
  ELSE DbSet(st, AccountId, PackSession(collected, now, AccountId))

\* lines 276-290: pack and hand to the store; dbFails: saveSessionData throws
SaveStored(st, collected, now, dbFails) ==
  IF dbFails THEN st
  ELSE DbSet(st, AccountId, PackSession(collected, now, AccountId))

\* ------------------------------------------------------------------------
\* Bounds, and the trees and blobs the initial states are drawn from
\* ------------------------------------------------------------------------

\* number of save timers one instance may schedule
MaxTimers == 2

\* number of saves that reach the store (the values of Date.now())
MaxClock == 2

\* file contents by size (in MiB): 0, 1, 2, 3, 4, 5 (the cap) and 6
Content(n) ==
  CASE n = 0 -> <<>>
    [] n = 1 -> <<77>>
    [] n = 2 -> <<255, 0>>
    [] n = 3 -> <<1, 2, 3>>
    [] n = 4 -> <<250, 251, 252, 253>>
    [] n = 5 -> <<0, 255, 77, 1, 128>>
    [] OTHER -> <<9, 8, 7, 6, 5, 4>>

IndexedDbPath == SessionPath \o <<"Default", "IndexedDB">>

LocalStoragePath == SessionPath \o <<"Default", "Local Storage">>

\* the files a tree may hold, each with the sizes it may have (-1: absent)
Slots ==
  << [path |-> IndexedDbPath \o <<"000003.log">>, sizes |-> {-1, 0, 2, 5, 6}],
     [path |-> IndexedDbPath \o <<"000004.log">>, sizes |-> {-1, 5}],
     [path |-> IndexedDbPath \o <<"blob", "1">>, sizes |-> {-1, 5}],
     [path |-> IndexedDbPath \o <<"blob", "MANIFEST">>, sizes |-> {-1, 5}],
     [path |-> IndexedDbPath \o <<"blob", "SingletonLock">>, sizes |-> {-1, 2}],
     [path |-> LocalStoragePath \o <<"leveldb", "LOCK">>, sizes |-> {-1, 6}],
     [path |-> IndexedDbPath \o <<"MANIFEST">>, sizes |-> {-1, 3}],
     [path |-> LocalStoragePath \o <<"leveldb", "CURRENT">>, sizes |-> {-1, 4}] >>

SlotPaths == {Slots[i].path : i \in 1..Len(Slots)}

\* the tree with the given size in each slot
TreeFiles(choice) ==
  LET present == {i \in 1..Len(Slots) : choice[i] # -1} IN
  [p \in {Slots[i].path : i \in present} |->
     Content(choice[CHOOSE i \in present : Slots[i].path = p])]

\* every assignment of a size to each slot
TreeChoices ==
  {c \in [1..Len(Slots) -> {-1, 0, 2, 3, 4, 5, 6}] :
     \A i \in 1..Len(Slots) : c[i] \in Slots[i].sizes}

\* the directories of a tree: every ancestor of a file
TreeDirs(f) == UNION {Prefixes(PathDirname(p)) : p \in DOMAIN f}

\* another process rewriting or deleting one file of the tree
Races(f) ==
  {NoRace} \cup
  {[on |-> TRUE, path |-> Slots[i].path, gone |-> n = -1,
    bytes |-> Content(IF n = -1 THEN 0 ELSE n)] :
     <<i, n>> \in {x \in (1..Len(Slots)) \X {-1, 0, 2, 3, 4, 5, 6} :
                     Slots[x[1]].path \in DOMAIN f /\ x[2] \in Slots[x[1]].sizes}}

\* the files after the race's write
AfterRace(f, race) ==
  IF ~race.on THEN f
  ELSE IF race.gone THEN [q \in DOMAIN f \ {race.path} |-> f[q]]
  ELSE WriteFile(f, race.path, race.bytes)

\* ------------------------------------------------------------------------
\* State
\* ------------------------------------------------------------------------

VARIABLES
  files,      \* the regular files on disk: path -> bytes
  dirs,       \* the directories on disk
  store,      \* the durable store: account -> blob
  clock,      \* Date.now()
  saveTimer,  \* this.saveTimer: 0 for null, else the id setTimeout returned
  timers,     \* the timers of the event loop: id -> state
  saves,      \* the executions of saveSession, one per fired timer
  last,       \* what the last call did and returned (for the properties)
  snap,       \* the files on disk when the stored blob was collected
  tornDown,   \* the timers scheduled before a logout() or destroy()
  destroyed   \* the timers scheduled before a destroy()

vars ==
  <<files, dirs, store, clock, saveTimer, timers, saves, last, snap, tornDown, destroyed>>

EmptyStore == [a \in {} |-> 0]

LastNone ==
  [op |-> "none", ok |-> FALSE, gets |-> 0, clears |-> 0, sets |-> 0,
   written |-> 0,
   collected |-> EmptyFiles, totalSize |-> 0, race |-> NoRace,
   flt |-> NoFaults, preFiles |-> [q \in {} |-> <<>>], preDirs |-> {}, preStore |-> EmptyStore]

SaveNone ==
  [pc |-> "none", collected |-> EmptyFiles, ok |-> FALSE,
   tree |-> [q \in {} |-> <<>>]]

\* the constructor: this.saveTimer = null, nothing scheduled
InitInstance ==
  /\ saveTimer = 0
  /\ timers = [t \in 1..MaxTimers |-> "unset"]
  /\ saves = [t \in 1..MaxTimers |-> SaveNone]
  /\ clock = 1
  /\ last = LastNone
  /\ snap = [q \in {} |-> <<>>]
  /\ tornDown = {}
  /\ destroyed = {}

\* ------------------------------------------------------------------------
\* The collector applied to a tree
\* ------------------------------------------------------------------------

InitCollect ==
  /\ InitInstance
  /\ \E c \in TreeChoices : files = TreeFiles(c)
  /\ dirs = TreeDirs(files)
  /\ store = EmptyStore

\* collectEssentialFiles(sessionPath) while another process may write
CollectCall ==
  \E race \in Races(files) :
    LET res == CollectEssentialFiles(files, dirs, race, SessionPath) IN
    /\ last' = [LastNone EXCEPT !.op = "collect", !.collected = res.files,
                                !.totalSize = res.totalSize, !.race = race,
                                !.preFiles = files, !.preDirs = dirs]
    /\ files' = AfterRace(files, race)
    /\ dirs' = dirs
    /\ UNCHANGED <<store, clock, saveTimer, timers, saves, snap, tornDown, destroyed>>

NextCollect == CollectCall

SpecCollect == InitCollect /\ [][NextCollect]_vars

\* ------------------------------------------------------------------------
\* Properties of the collector
\* ------------------------------------------------------------------------

RECURSIVE DecodedSize(_)
\* the sum of the decoded sizes of the entries of a files object
DecodedSize(obj) ==
  IF obj = <<>> THEN 0
  ELSE Len(FromBase64(Head(obj).b64)) + DecodedSize(Tail(obj))

\* the keys of a files object
Keys(obj) == {obj[i].path : i \in 1..Len(obj)}

\* the last segment of a path
Basename(p) == p[Len(p)]

\* a tree without its lock files
WithoutLocks(f) ==
  [p \in {q \in DOMAIN f : Basename(q) \notin LOCK_NAMES} |-> f[p]]

\* C8: every collected snapshot has an aggregate decoded size of at most
\* MAX_TOTAL_SIZE, over both essential directories together.
C8_AggregateWithinBudget ==
  last.op = "collect" => DecodedSize(last.collected) <= MAX_TOTAL_SIZE

\* C9: no collected snapshot holds an entry larger than MAX_FILE_SIZE or of
\* size 0, also when a file is rewritten between its stat and its read.
C9_EntriesWithinFileBudget ==
  last.op = "collect" =>
    \A i \in 1..Len(last.collected) :
      LET n == Len(FromBase64(last.collected[i].b64)) IN
      n > 0 /\ n <= MAX_FILE_SIZE

\* C10: a lock file (LOCK, SingletonLock, SingletonCookie, SingletonSocket)
\* is never a key of the collected entries, whatever its depth and size, and
\* the collection is the one the same tree without its lock files gives.
C10_LockFilesExcluded ==
  last.op = "collect" =>
    /\ \A p \in Keys(last.collected) : Basename(p) \notin LOCK_NAMES
    /\ LET race == IF last.race.on /\ Basename(last.race.path) \in LOCK_NAMES
                   THEN NoRace ELSE last.race
           bare == CollectEssentialFiles(WithoutLocks(last.preFiles),
                                         last.preDirs, race, SessionPath)
       IN /\ last.collected = bare.files
          /\ last.totalSize = bare.totalSize

\* C10 witness: a lock file of collectable size below IndexedDB/blob and a
\* lock file above the cap in Local Storage/leveldb, both beside collected
\* files
C10_Witness ==
  /\ last.op = "collect"
  /\ IndexedDbPath \o <<"blob", "SingletonLock">> \in DOMAIN last.preFiles
  /\ LocalStoragePath \o <<"leveldb", "LOCK">> \in DOMAIN last.preFiles
  /\ PathRelative(SessionPath, LocalStoragePath \o <<"leveldb", "CURRENT">>)
       \in Keys(last.collected)
  /\ PathRelative(SessionPath, IndexedDbPath \o <<"blob", "1">>)
       \in Keys(last.collected)
  /\ PathRelative(SessionPath, IndexedDbPath \o <<"MANIFEST">>)
       \in Keys(last.collected)

\* the slots of Default/IndexedDB and of Default/Local Storage in the order
\* a depth-first walk in readdir order meets them
IndexedDbWalk == <<1, 2, 3, 4, 5, 7>>

LocalStorageWalk == <<6, 8>>

\* the collector records the file at p: not a lock file, its size at the
\* stat in 1..MAX_FILE_SIZE, still there at the read
Recorded(f, race, p) ==
  /\ p \in DOMAIN f
  /\ Basename(p) \notin LOCK_NAMES
  /\ Len(f[p]) > 0 /\ Len(f[p]) <= MAX_FILE_SIZE
  /\ ~(race.on /\ race.path = p /\ race.gone)

RECURSIVE FlatWalk(_, _, _, _, _, _)
\* the entries one essential directory is to contribute: the recorded files
\* in walk order, up to and including the one that takes the running size
\* over MAX_TOTAL_SIZE, and none after it
FlatWalk(walk, i, f, race, sum, acc) ==
  IF i > Len(walk) \/ sum > MAX_TOTAL_SIZE THEN acc
  ELSE LET p == Slots[walk[i]].path
           content == IF race.on /\ race.path = p THEN race.bytes ELSE f[p]
       IN IF Recorded(f, race, p)
          THEN FlatWalk(walk, i + 1, f, race, sum + Len(content),
                 Append(acc, [path |-> PathRelative(SessionPath, p),
                              b64 |-> ToBase64(content)]))
          ELSE FlatWalk(walk, i + 1, f, race, sum, acc)

\* C19: in the walk of one essential directory no entry is added, at any
\* directory level, once the running size has exceeded MAX_TOTAL_SIZE (also
\* in the parent after a nested directory's walk returns), the entries
\* accepted before remain, and the next essential directory is walked.
C19_BudgetStopsOneWalk ==
  last.op = "collect" =>
    last.collected =
      FlatWalk(IndexedDbWalk, 1, last.preFiles, last.race, 0, <<>>)
      \o FlatWalk(LocalStorageWalk, 1, last.preFiles, last.race, 0, <<>>)

\* C19 witness: the running size passed the budget inside IndexedDB/blob;
\* IndexedDB/MANIFEST, met after the return from blob, was left out, and
\* Local Storage/leveldb/CURRENT was collected
C19_Witness ==
  /\ last.op = "collect" /\ ~last.race.on
  /\ IndexedDbPath \o <<"MANIFEST">> \in DOMAIN last.preFiles
  /\ PathRelative(SessionPath, IndexedDbPath \o <<"MANIFEST">>)
       \notin Keys(last.collected)
  /\ PathRelative(SessionPath, IndexedDbPath \o <<"blob", "MANIFEST">>)
       \in Keys(last.collected)
  /\ PathRelative(SessionPath, LocalStoragePath \o <<"leveldb", "CURRENT">>)
       \in Keys(last.collected)

\* ------------------------------------------------------------------------
\* The restorer applied to a stored blob
\* ------------------------------------------------------------------------

\* the value of a text that is not JSON, or of JSON null, at the outer layer
EnvelopeNone ==
  [isObject |-> FALSE, type |-> "", saved |-> 0,
   data |-> [truthy |-> FALSE,
             buf |-> [gz |-> FALSE, text |-> [json |-> FALSE, val |-> InnerNone]]]]

\* the type tags an envelope may carry ("" : no tag)
TypeTags == {"session_v4", "session_v9", ""}

\* the files objects of well-formed payloads: what the collector gives for
\* two trees
PayloadFiles ==
  { CollectEssentialFiles(f, TreeDirs(f), NoRace, SessionPath).files :
      f \in { TreeFiles(<<5, -1, -1, -1, -1, -1, -1, 4>>),
              TreeFiles(<<-1, -1, 5, -1, -1, -1, 3, -1>>) } }

\* the files object of a payload that was not made by saveSession: its first
\* key climbs out of the session directory with a ".." segment
CraftedFiles ==
  << [path |-> <<"..", "acct2", "evil">>, b64 |-> ToBase64(Content(1))],
     [path |-> <<"Default", "IndexedDB", "000003.log">>,
      b64 |-> ToBase64(Content(2))] >>

\* the values of the envelope's data field
DataFields ==
  {EnvelopeNone.data} \cup
  {BufToBase64(b) :
     b \in {[gz |-> FALSE, text |-> [json |-> FALSE, val |-> InnerNone]],
            Gzip([json |-> FALSE, val |-> InnerNone]),
            Gzip(JsonStringify(InnerNone)),
            Gzip(JsonStringify([InnerNone EXCEPT !.isObject = TRUE])),
            Gzip(JsonStringify(SnapshotPayload(EmptyFiles, 1, AccountId)))}
          \cup {Gzip(JsonStringify(SnapshotPayload(o, 1, AccountId))) :
                  o \in PayloadFiles \cup {CraftedFiles}}}

\* the blobs the store may hold when a restore starts
Blobs ==
  {TextToBase64([json |-> FALSE, val |-> EnvelopeNone]),
   TextToBase64(JsonStringify(EnvelopeNone))}
  \cup {TextToBase64(JsonStringify(Envelope(t, dat, 1))) :
          t \in TypeTags, dat \in DataFields}

\* the trees a restore may start from
RestoreTrees ==
  {TreeFiles(c) : c \in {<<-1, -1, -1, -1, -1, -1, -1, -1>>,
                         <<2, -1, -1, -1, -1, -1, -1, -1>>,
                         <<-1, -1, -1, -1, -1, -1, -1, 4>>}}

\* trees in which a regular file holds the place of a directory the restore
\* needs: the session directory, or Default/IndexedDB
BlockedTrees ==
  { [p \in {SessionPath} |-> Content(1)],
    [p \in {IndexedDbPath} |-> Content(1)] }

\* the directories a tree may come with: the ancestors of its files, and,
\* where no file lies in it, an empty Default/IndexedDB as well
RestoreDirs(f) ==
  {TreeDirs(f)} \cup
  (IF MkdirOk(f, IndexedDbPath) /\ \A p \in DOMAIN f : ~IsUnder(IndexedDbPath, p)
   THEN {TreeDirs(f) \cup Prefixes(IndexedDbPath)}
   ELSE {})

\* the faults of the store and of the file system during one restore
Faults(st) ==
  [get : BOOLEAN, clear : BOOLEAN,
   write : IF DbHas(st, AccountId)
           THEN SUBSET Keys(TextFromBase64(DbGet(st, AccountId))
                              .val.data.buf.text.val.files)
           ELSE {{}},
   gzip : {FALSE}, set : {FALSE}]

InitRestore ==
  /\ InitInstance
  /\ files \in RestoreTrees \cup BlockedTrees
  /\ dirs \in RestoreDirs(files)
  /\ store \in {EmptyStore} \cup {DbSet(EmptyStore, AccountId, b) : b \in Blobs}

\* preRestoreSession(accountId, dataPath) under one of the given faults
Restore(flts) ==
  \E flt \in flts :
    LET res == PreRestoreSession(files, dirs, store, AccountId, DataPath, flt) IN
    /\ files' = res.files
    /\ dirs' = res.dirs
    /\ store' = res.store
    /\ last' = [LastNone EXCEPT !.op = "restore", !.ok = res.restored,
                                !.gets = res.gets, !.clears = res.clears,
                                !.written = res.written, !.flt = flt,
                                !.preFiles = files, !.preDirs = dirs,
                                !.preStore = store]
    /\ UNCHANGED <<clock, saveTimer, timers, saves, snap, tornDown, destroyed>>

\* beforeBrowserInitialized(): the two mkdir, the presence test, the restore
\* under one of the given faults
BeforeInit(flts) ==
  IF ~MkdirOk(files, SessionPath)
  THEN /\ last' = [LastNone EXCEPT !.op = "init"]
       /\ dirs' = IF MkdirOk(files, DataPath) THEN MkdirP(dirs, DataPath)
                  ELSE dirs
       /\ UNCHANGED <<files, store, clock, saveTimer, timers, saves, snap,
                      tornDown, destroyed>>
  ELSE IF HasPreRestoredSession(files, MkdirP(dirs, SessionPath), SessionPath)
  THEN /\ last' = [LastNone EXCEPT !.op = "init", !.preFiles = files,
                                   !.preDirs = dirs, !.preStore = store]
       /\ dirs' = MkdirP(dirs, SessionPath)
       /\ UNCHANGED <<files, store, clock, saveTimer, timers, saves, snap,
                      tornDown, destroyed>>
  ELSE \E flt \in flts :
         LET res == PreRestoreSession(files, MkdirP(dirs, SessionPath), store,
                                      AccountId, DataPath, flt)
         IN /\ files' = res.files
            /\ dirs' = res.dirs
            /\ store' = res.store
            /\ last' = [LastNone EXCEPT !.op = "init", !.ok = res.restored,
                                        !.gets = res.gets,
                                        !.clears = res.clears,
                                        !.written = res.written, !.flt = flt,
                                        !.preFiles = files, !.preDirs = dirs,
                                        !.preStore = store]
            /\ UNCHANGED <<clock, saveTimer, timers, saves, snap, tornDown, destroyed>>

\* a restore under any fault of the store and of the file system
RestoreCall == Restore(Faults(store))

\* beforeBrowserInitialized() under any fault of its restore
InitCall == BeforeInit(Faults(store))

\* hasPreRestoredSession(sessionPath) called on its own
PresenceCall ==
  /\ last' = [LastNone EXCEPT !.op = "present",
                              !.ok = HasPreRestoredSession(files, dirs,
                                                           SessionPath),
                              !.preFiles = files, !.preDirs = dirs,
                              !.preStore = store]
  /\ UNCHANGED <<files, dirs, store, clock, saveTimer, timers, saves, snap,
                 tornDown, destroyed>>

NextRestore == RestoreCall \/ InitCall \/ PresenceCall

SpecRestore == InitRestore /\ [][NextRestore]_vars

\* ------------------------------------------------------------------------
\* Properties of the restorer
\* ------------------------------------------------------------------------

\* the last call was a restore that read a blob from the store
RestoredBlob ==
  /\ last.op = "restore"
  /\ ~last.flt.get
  /\ MkdirOk(last.preFiles, SessionPath)
  /\ DbHas(last.preStore, AccountId)

\* the text of the blob the last restore read
LastText == TextFromBase64(DbGet(last.preStore, AccountId))

\* C2: a blob that decodes to text that is not JSON makes preRestoreSession
\* call clearSessionData exactly once, write no file and return
\* restored = false.
C2_CorruptBlobCleared ==
  (RestoredBlob /\ ~LastText.json) =>
    /\ last.gets = 1
    /\ last.clears = 1
    /\ files = last.preFiles
    /\ ~last.ok

\* C2 witness: a restore of a blob that is not JSON, the clear succeeding
C2_Witness ==
  RestoredBlob /\ ~LastText.json /\ ~last.flt.clear /\ last.clears = 1

\* C3: a blob that parses as JSON but has no data field gives
\* restored = false, no file written and the store holding the same blob.
C3_UnknownShapeKept ==
  (RestoredBlob /\ LastText.json /\ ~LastText.val.data.truthy) =>
    /\ ~last.ok
    /\ files = last.preFiles
    /\ last.clears = 0
    /\ store = last.preStore

\* C3 witness: a restore of an envelope object without a data field
C3_Witness ==
  /\ RestoredBlob /\ LastText.json /\ LastText.val.isObject
  /\ ~LastText.val.data.truthy /\ LastText.val.type = "session_v9"
  /\ DbHas(store, AccountId)

\* the data field holds the gzip of a JSON payload with a non-empty files
WellFormedData(env) ==
  /\ env.isObject /\ env.data.truthy /\ env.data.buf.gz
  /\ env.data.buf.text.json
  /\ env.data.buf.text.val.isObject
  /\ env.data.buf.text.val.hasFiles
  /\ Len(env.data.buf.text.val.files) > 0

\* C4: whatever the type tag (absent included), an envelope with a
\* well-formed data field returns restored = true and restores what the
\* same envelope tagged "session_v4" restores.
C4_TypeTagIgnored ==
  (RestoredBlob /\ LastText.json /\ WellFormedData(LastText.val)) =>
    LET v4 == TextToBase64(JsonStringify(
                [LastText.val EXCEPT !.type = "session_v4"]))
        ref == PreRestoreSession(last.preFiles, last.preDirs,
                 DbSet(last.preStore, AccountId, v4), AccountId, DataPath,
                 last.flt)
    IN /\ last.ok
       /\ ref.restored
       /\ files = ref.files
       /\ dirs = ref.dirs
       /\ last.written = ref.written
       /\ store = last.preStore

\* C4 witness: an envelope with another tag restored both of its files
C4_Witness ==
  /\ RestoredBlob /\ LastText.json /\ WellFormedData(LastText.val)
  /\ LastText.val.type = "session_v9"
  /\ last.ok /\ last.written = 2

\* C5: a data field that fails to decompress, or decompresses to text that
\* is not JSON, makes preRestoreSession clear the stored value, write no
\* file and return restored = false.
C5_DecodeFailureCleared ==
  (/\ RestoredBlob /\ LastText.json /\ LastText.val.isObject
   /\ LastText.val.data.truthy
   /\ (~LastText.val.data.buf.gz \/ ~LastText.val.data.buf.text.json)) =>
    /\ last.clears = 1
    /\ ~last.flt.clear => ~DbHas(store, AccountId)
    /\ files = last.preFiles
    /\ ~last.ok

\* C5 witness: a gzip stream of text that is not JSON was cleared
C5_Witness ==
  /\ RestoredBlob /\ LastText.json /\ LastText.val.isObject
  /\ LastText.val.data.truthy /\ LastText.val.data.buf.gz
  /\ ~LastText.val.data.buf.text.json
  /\ ~DbHas(store, AccountId)

\* the entries of the payload the last restore decoded
LastEntries == LastText.val.data.buf.text.val.files

\* nothing fails for the entry e in the last restore: its writeFile is not
\* failed by the environment, no file stands in the way of its directory and
\* no directory in its own place
EntryWritable(e) ==
  LET fullPath == PathJoin(SessionPath, e.path) IN
  /\ e.path \notin last.flt.write
  /\ MkdirOk(last.preFiles, PathDirname(fullPath))
  /\ fullPath \notin last.preDirs

\* C14: with a non-empty entries map preRestoreSession returns
\* restored = true however many entries fail to be written (all of them
\* included), each entry that meets no failure is written with its bytes
\* whatever failed before it, and the store is not cleared.
C14_PartialRestoreSucceeds ==
  (RestoredBlob /\ LastText.json /\ WellFormedData(LastText.val)) =>
    /\ last.ok
    /\ last.clears = 0
    /\ store = last.preStore
    /\ \A i \in 1..Len(LastEntries) :
         EntryWritable(LastEntries[i]) =>
           LET fullPath == PathJoin(SessionPath, LastEntries[i].path) IN
           /\ fullPath \in DOMAIN files
           /\ files[fullPath] = FromBase64(LastEntries[i].b64)
    /\ last.written =
         Cardinality({i \in 1..Len(LastEntries) : EntryWritable(LastEntries[i])})

\* C14 witness: the write of the first entry failed and the second entry
\* was written
C14_Witness ==
  /\ RestoredBlob /\ LastText.json /\ WellFormedData(LastText.val)
  /\ Len(LastEntries) = 2
  /\ ~EntryWritable(LastEntries[1])
  /\ EntryWritable(LastEntries[2])
  /\ last.ok /\ last.written = 1

\* Default/IndexedDB of the tree (f, d) holds at least one entry
IndexedDbHasEntry(f, d) ==
  \E p \in DOMAIN f \cup d : IsUnder(IndexedDbPath, p) /\ p # IndexedDbPath

\* C11: when Default/IndexedDB under the session directory holds at least
\* one entry, beforeBrowserInitialized makes no call of getSessionData or
\* clearSessionData, writes no file and leaves the store as it is; a restore
\* is attempted only when the directory holds no entry.
C11_PresenceShortCircuit ==
  (last.op = "init" /\ IndexedDbHasEntry(last.preFiles, last.preDirs)) =>
    /\ last.gets = 0
    /\ last.clears = 0
    /\ ~last.ok
    /\ files = last.preFiles
    /\ store = last.preStore

\* C11 witness: the hook returned early on a tree with an IndexedDB file,
\* the store holding a blob that is not JSON (a restore would clear it)
C11_Witness ==
  /\ last.op = "init"
  /\ IndexedDbHasEntry(last.preFiles, last.preDirs)
  /\ DbHas(last.preStore, AccountId) /\ ~LastText.json
  /\ DbHas(store, AccountId)

\* the tree (f, d) without what lies in Default/Local Storage
FilesOutsideLocalStorage(f) ==
  [p \in {q \in DOMAIN f : ~IsUnder(LocalStoragePath, q)} |-> f[p]]

DirsOutsideLocalStorage(d) == {p \in d : ~IsUnder(LocalStoragePath, p)}

\* C16: hasPreRestoredSession(sessionRoot) is true iff Default/IndexedDB is
\* a directory under sessionRoot with at least one entry; it is false when
\* the directory is absent, empty or a regular file (readdirSync throws),
\* and it is the same with Default/Local Storage taken away.
C16_PresenceCheck ==
  last.op = "present" =>
    /\ last.ok <=> (/\ IndexedDbPath \in last.preDirs
                    /\ IndexedDbHasEntry(last.preFiles, last.preDirs))
    /\ last.ok = HasPreRestoredSession(FilesOutsideLocalStorage(last.preFiles),
                                       DirsOutsideLocalStorage(last.preDirs),
                                       SessionPath)

\* C16 witness: Default/IndexedDB is an empty directory beside a Local
\* Storage that holds a file, and the answer is false
C16_Witness ==
  /\ last.op = "present"
  /\ IndexedDbPath \in last.preDirs
  /\ LocalStoragePath \o <<"leveldb", "CURRENT">> \in DOMAIN last.preFiles
  /\ ~last.ok

\* C18: every file and every directory a preRestoreSession creates lies
\* under the session directory dataPath/accountId (the directory itself and
\* its ancestors apart), whatever the keys of the stored entries map, keys
\* with ".." segments included.
C18_RestoreStaysInside ==
  last.op = "restore" =>
    \A p \in (DOMAIN files \ DOMAIN last.preFiles) \cup (dirs \ last.preDirs) :
      IsUnder(SessionPath, p) \/ p \in Prefixes(SessionPath)

\* the last restore decoded the envelope down to its payload object
DecodedPayload ==
  /\ RestoredBlob /\ LastText.json /\ LastText.val.isObject
  /\ LastText.val.data.truthy /\ LastText.val.data.buf.gz
  /\ LastText.val.data.buf.text.json
  /\ LastText.val.data.buf.text.val.isObject

\* C20: when the envelope decodes but its payload has no files object, or
\* one without keys, preRestoreSession returns restored = false, writes no
\* file, creates nothing below the session directory and does not clear
\* the stored value.
C20_EmptyPayloadKept ==
  (/\ DecodedPayload
   /\ (~LastText.val.data.buf.text.val.hasFiles \/ Len(LastEntries) = 0)) =>
    /\ ~last.ok
    /\ last.written = 0
    /\ files = last.preFiles
    /\ dirs = MkdirP(last.preDirs, SessionPath)
    /\ last.clears = 0
    /\ store = last.preStore

\* C20 witness: a payload with an empty files object, not restored, the
\* blob still in the store
C20_Witness ==
  /\ DecodedPayload
  /\ LastText.val.data.buf.text.val.hasFiles /\ Len(LastEntries) = 0
  /\ ~last.ok /\ DbHas(store, AccountId)

\* ------------------------------------------------------------------------
\* Saves and restores that run one after the other
\* ------------------------------------------------------------------------

\* the trees a sequence of saves may start from: the slots of 000003.log,
\* 000004.log, blob/1, leveldb/LOCK and CURRENT filled or not, the others
\* empty
SaveTreeChoices ==
  {c \in TreeChoices : c[4] = -1 /\ c[5] = -1 /\ c[7] = -1}

InitSave ==
  /\ InitInstance
  /\ \E c \in SaveTreeChoices : files = TreeFiles(c)
  /\ dirs = TreeDirs(files)
  /\ store = EmptyStore

\* saveSession() run to its end with nothing in between; gzipFails: gzip
\* (line 278) throws, dbFails: saveSessionData (line 290) throws
SaveCall ==
  \E gzipFails \in BOOLEAN, dbFails \in BOOLEAN :
    LET got == SaveCollect(files, dirs, NoRace)
        packed == got.go /\ ~gzipFails
        ok == packed /\ ~dbFails
    IN
    /\ clock <= MaxClock
    /\ store' = IF packed THEN SaveStored(store, got.files, clock, dbFails)
                ELSE store
    /\ clock' = IF packed THEN clock + 1 ELSE clock
    /\ snap' = IF ok THEN files ELSE snap
    /\ last' = [LastNone EXCEPT !.op = "save", !.ok = ok,
                                !.sets = IF packed THEN 1 ELSE 0,
                                !.flt = [NoFaults EXCEPT
                                           !.gzip = got.go /\ gzipFails,
                                           !.set = packed /\ dbFails],
                                !.collected = got.files,
                                !.totalSize = got.totalSize,
                                !.preFiles = files, !.preDirs = dirs,
                                !.preStore = store]
    /\ UNCHANGED <<files, dirs, saveTimer, timers, saves, tornDown, destroyed>>

\* the session's owner (the browser) rewrites its CURRENT file
BrowserWrite ==
  \E n \in {3, 4} :
    LET p == LocalStoragePath \o <<"leveldb", "CURRENT">> IN
    /\ p \in DOMAIN files
    /\ files[p] # Content(n)
    /\ files' = WriteFile(files, p, Content(n))
    /\ last' = [LastNone EXCEPT !.op = "write"]
    /\ UNCHANGED <<dirs, store, clock, saveTimer, timers, saves, snap, tornDown, destroyed>>

\* logout(): clearTimeout(this.saveTimer) when it is set
Logout ==
  /\ timers' = [t \in DOMAIN timers |->
                  IF t = saveTimer /\ timers[t] = "pending" THEN "cleared"
                  ELSE timers[t]]
  /\ tornDown' = {t \in DOMAIN timers : timers[t] # "unset"}
  /\ last' = [LastNone EXCEPT !.op = "logout"]
  /\ UNCHANGED <<files, dirs, store, clock, saveTimer, saves, snap, destroyed>>

\* destroy(): clearTimeout(this.saveTimer) when it is set, then
\* fs.rm(sessionPath, { recursive: true, force: true })
Destroy ==
  /\ timers' = [t \in DOMAIN timers |->
                  IF t = saveTimer /\ timers[t] = "pending" THEN "cleared"
                  ELSE timers[t]]
  /\ tornDown' = {t \in DOMAIN timers : timers[t] # "unset"}
  /\ destroyed' = {t \in DOMAIN timers : timers[t] # "unset"}
  /\ files' = RmFiles(files, SessionPath)
  /\ dirs' = RmDirs(dirs, SessionPath)
  /\ last' = [LastNone EXCEPT !.op = "destroy"]
  /\ UNCHANGED <<store, clock, saveTimer, saves, snap>>

\* a restore that meets no fault
RestoreClean == Restore({NoFaults})

NextSave == SaveCall \/ BrowserWrite \/ Destroy \/ RestoreClean

SpecSave == InitSave /\ [][NextSave]_vars

\* ------------------------------------------------------------------------
\* Properties of a save followed by a restore, and of two saves
\* ------------------------------------------------------------------------

\* p lies in one of the two essential directories
Essential(p) == IsUnder(IndexedDbPath, p) \/ IsUnder(LocalStoragePath, p)

\* the files of a tree a snapshot is to hold: in an essential directory, not
\* a lock file, not empty
Eligible(f) ==
  [p \in {q \in DOMAIN f : Essential(q) /\ Basename(q) \notin LOCK_NAMES
                            /\ Len(f[q]) > 0} |-> f[p]]

RECURSIVE SizeOver(_, _)
\* the sum of the sizes of the files of f at the paths ps
SizeOver(f, ps) ==
  IF ps = {} THEN 0
  ELSE LET p == CHOOSE q \in ps : TRUE IN Len(f[p]) + SizeOver(f, ps \ {p})

\* each eligible file within the per-file cap, all of them within the total
WithinCaps(f) ==
  /\ \A p \in DOMAIN Eligible(f) : Len(f[p]) <= MAX_FILE_SIZE
  /\ SizeOver(f, DOMAIN Eligible(f)) <= MAX_TOTAL_SIZE

\* the files object of the envelope the store holds for the account
StoredSession(st) ==
  DecodeSession(JsonParse(TextFromBase64(DbGet(st, AccountId))))

\* C1: for a tree whose eligible files are each within MAX_FILE_SIZE and
\* together within MAX_TOTAL_SIZE, saveSession followed by preRestoreSession
\* into an empty target reproduces every such file with its bytes at its
\* path, and writes no other file.
C1_RoundTrip ==
  (/\ last.op = "restore" /\ DbHas(last.preStore, AccountId)
   /\ DOMAIN last.preFiles = {}
   /\ WithinCaps(snap)) =>
    /\ last.ok
    /\ files = Eligible(snap)
    /\ last.written = Cardinality(DOMAIN Eligible(snap))

\* C1 witness: three files of both directories, one of them nested, came
\* back; the lock file beside them did not
C1_Witness ==
  /\ last.op = "restore" /\ DOMAIN last.preFiles = {} /\ WithinCaps(snap)
  /\ LocalStoragePath \o <<"leveldb", "LOCK">> \in DOMAIN snap
  /\ last.written = 3
  /\ IndexedDbPath \o <<"blob", "1">> \in DOMAIN files
  /\ LocalStoragePath \o <<"leveldb", "CURRENT">> \in DOMAIN files

\* C7: a save that returns true when the store already holds an envelope
\* of an earlier save leaves one envelope for the account, and it decodes to
\* the files object this second save collected, with its timestamp.
C7_SecondSaveOverwrites ==
  (last.op = "save" /\ last.ok /\ DbHas(last.preStore, AccountId)) =>
    /\ DOMAIN store = {AccountId}
    /\ ~DecodeThrows(JsonParse(TextFromBase64(DbGet(store, AccountId))))
    /\ StoredSession(store).files = last.collected
    /\ StoredSession(store).ts = clock - 1
    /\ StoredSession(store).ts # StoredSession(last.preStore).ts

\* C7 witness: the second save stored other content than the first
C7_Witness ==
  /\ last.op = "save" /\ last.ok /\ DbHas(last.preStore, AccountId)
  /\ StoredSession(last.preStore).files # last.collected
  /\ StoredSession(store).files = last.collected

\* the store holds, for the account, a complete envelope: tagged session_v4,
\* its data field the gzip of a JSON payload with a non-empty files object
CompleteEnvelope(st) ==
  /\ DbHas(st, AccountId)
  /\ LET text == TextFromBase64(DbGet(st, AccountId)) IN
     /\ text.json
     /\ WellFormedData(text.val)
     /\ text.val.type = "session_v4"

\* C13: the stored value changes only by the set of a complete envelope in
\* a saveSession that returns true, or by a clear in preRestoreSession; a
\* saveSession that returns false (no Default folder, no file collected,
\* gzip or the store failing) leaves the stored value as it was.
C13_NoPartialEnvelope ==
  [][store' # store =>
       \/ /\ last'.op = "save" /\ last'.ok
          /\ CompleteEnvelope(store')
          /\ StoredSession(store').files = last'.collected
       \/ /\ last'.op = "restore" /\ last'.clears = 1
          /\ store' = DbClear(store, AccountId)]_vars

\* C13 witness: a save that had collected files returned false, the store
\* still holding the envelope of the save before it
C13_Witness ==
  /\ last.op = "save" /\ ~last.ok /\ Len(last.collected) > 0
  /\ DbHas(last.preStore, AccountId)
  /\ store = last.preStore
  /\ StoredSession(store).files # last.collected

\* ------------------------------------------------------------------------
\* Saves and restores under every fault of the store and the file system
\* ------------------------------------------------------------------------

NextFailures == SaveCall \/ RestoreCall

SpecFailures == InitRestore /\ [][NextFailures]_vars

\* a call of the store raised in the last restore
StoreRaisedInRestore ==
  \/ last.flt.get /\ last.gets = 1
  \/ last.flt.clear /\ last.clears = 1

\* the last restore decoded a non-empty entries map and one of its entries
\* failed to be written
SomeEntryFailed ==
  /\ RestoredBlob /\ LastText.json /\ WellFormedData(LastText.val)
  /\ \E i \in 1..Len(LastEntries) : ~EntryWritable(LastEntries[i])

\* the last save found no Default folder, or its gzip or its store call
\* raised
SaveFailed ==
  \/ ~FsAccess(last.preFiles, last.preDirs, SessionPath \o <<"Default">>)
  \/ last.flt.gzip
  \/ last.flt.set

\* C15 as stated: on every failure of the store (get, set or clear raising)
\* and on every failure of the file system saveSession returns false and
\* preRestoreSession returns restored = false, and the store is called at
\* most once per kind of call.
C15_EveryFailureFails ==
  /\ last.op = "restore" =>
       /\ last.gets <= 1 /\ last.clears <= 1
       /\ (\/ StoreRaisedInRestore
           \/ ~MkdirOk(last.preFiles, SessionPath)
           \/ SomeEntryFailed) => ~last.ok
  /\ last.op = "save" =>
       /\ last.sets <= 1
       /\ SaveFailed => ~last.ok

\* C15 as amended: on every failure of the store, and on the failure of the
\* mkdir of the session directory (restore) or of the access of the Default
\* folder (save), saveSession returns false and preRestoreSession returns
\* restored = false, the store being called at most once per kind of call;
\* the failure of a single entry is skipped and does not fail the call.
C15_FailuresReturnFalse ==
  /\ last.op = "restore" =>
       /\ last.gets <= 1 /\ last.clears <= 1
       /\ (StoreRaisedInRestore \/ ~MkdirOk(last.preFiles, SessionPath)) =>
            ~last.ok
  /\ last.op = "save" =>
       /\ last.sets <= 1
       /\ SaveFailed => ~last.ok

\* C15 witness: clearSessionData raised on a blob that is not JSON; the
\* restore returned restored = false after one get and one clear
C15_Witness ==
  /\ RestoredBlob /\ ~LastText.json
  /\ last.flt.clear /\ last.gets = 1 /\ last.clears = 1
  /\ ~last.ok
  /\ store = last.preStore

\* ------------------------------------------------------------------------
\* The lifecycle of one RemoteAuth instance
\* ------------------------------------------------------------------------

\* the trees the instance may find at construction
LifeTrees ==
  {TreeFiles(c) : c \in {<<-1, -1, -1, -1, -1, -1, -1, -1>>,
                         <<2, -1, -1, -1, -1, -1, -1, 4>>}}

\* the blob of an earlier session of the account
EarlierBlob ==
  PackSession(
    CollectEssentialFiles(TreeFiles(<<5, -1, -1, -1, -1, -1, -1, -1>>),
      TreeDirs(TreeFiles(<<5, -1, -1, -1, -1, -1, -1, -1>>)), NoRace,
      SessionPath).files,
    0, AccountId)

Init ==
  /\ InitInstance
  /\ files \in LifeTrees
  /\ dirs = TreeDirs(files)
  /\ store \in {EmptyStore, DbSet(EmptyStore, AccountId, EarlierBlob)}

\* afterAuthReady(): this.saveTimer = setTimeout(..., 60000)
AfterAuthReady ==
  /\ \E t \in DOMAIN timers : timers[t] = "unset"
  /\ LET t == CHOOSE x \in DOMAIN timers :
                timers[x] = "unset" /\ \A y \in 1..(x - 1) : timers[y] # "unset"
     IN /\ timers' = [timers EXCEPT ![t] = "pending"]
        /\ saveTimer' = t
  /\ last' = [LastNone EXCEPT !.op = "afterAuthReady"]
  /\ UNCHANGED <<files, dirs, store, clock, saves, snap, tornDown, destroyed>>

\* a pending timer fires: its callback starts saveSession(), which runs up
\* to its call of the store (lines 253-286)
TimerFire(t) ==
  /\ timers[t] = "pending"
  /\ timers' = [timers EXCEPT ![t] = "fired"]
  /\ \E race \in {NoRace}, gzipFails \in BOOLEAN :
       LET got == SaveCollect(files, dirs, race) IN
       /\ saves' = [saves EXCEPT ![t] =
                      [pc |-> IF got.go /\ ~gzipFails THEN "collected"
                              ELSE "done",
                       collected |-> got.files, ok |-> FALSE, tree |-> files]]
       /\ files' = AfterRace(files, race)
       /\ dirs' = dirs
       /\ last' = [LastNone EXCEPT !.op = "saveStart", !.race = race,
                                   !.collected = got.files,
                                   !.totalSize = got.totalSize]
  /\ UNCHANGED <<store, clock, saveTimer, snap, tornDown, destroyed>>

\* saveSession() resumes: db.saveSessionData(accountId, final), lines 290-297
SaveStore(t) ==
  /\ saves[t].pc = "collected"
  /\ clock <= MaxClock
  /\ \E dbFails \in BOOLEAN :
       /\ store' = SaveStored(store, saves[t].collected, clock, dbFails)
       /\ saves' = [saves EXCEPT ![t].pc = "done", ![t].ok = ~dbFails]
       /\ snap' = IF dbFails THEN snap ELSE saves[t].tree
       /\ last' = [LastNone EXCEPT !.op = "save", !.ok = ~dbFails,
                                   !.sets = 1,
                                   !.flt = [NoFaults EXCEPT !.set = dbFails],
                                   !.collected = saves[t].collected,
                                   !.preStore = store]
  /\ clock' = clock + 1
  /\ UNCHANGED <<files, dirs, saveTimer, timers, tornDown, destroyed>>

\* beforeBrowserInitialized() meeting no fault
BeforeBrowserInitialized == BeforeInit({NoFaults})

Next ==
  \/ AfterAuthReady
  \/ \E t \in 1..MaxTimers : TimerFire(t)
  \/ \E t \in 1..MaxTimers : SaveStore(t)
  \/ Logout
  \/ Destroy
  \/ BeforeBrowserInitialized

Spec == Init /\ [][Next]_vars

\* ------------------------------------------------------------------------
\* Properties of the lifecycle
\* ------------------------------------------------------------------------

\* C6: once logout() or destroy() has been called, no timer scheduled
\* before that call starts a saveSession.
C6_NoSaveAfterTeardown ==
  [][\A t \in tornDown : saves[t].pc = "none" => saves'[t].pc = "none"]_vars

\* C12: logout() and destroy() neither set nor clear the stored envelope,
\* and once destroy() has returned no saveSession of a timer the instance
\* scheduled before it changes the stored value, whether that save was
\* pending or in flight when destroy() was called.
C12_TeardownLeavesStore ==
  [][/\ last'.op \in {"logout", "destroy"} => store' = store
     /\ \A t \in destroyed :
          (saves[t].pc # "done" /\ saves'[t].pc = "done") => store' = store]_vars

\* C17: at every moment at most one save timer of the instance is pending
\* and at most one saveSession is in progress, whatever the sequence of
\* afterAuthReady calls.
C17_OneSaveInFlight ==
  /\ Cardinality({t \in DOMAIN timers : timers[t] = "pending"}) <= 1
  /\ Cardinality({t \in DOMAIN saves : saves[t].pc = "collected"}) <= 1

====
